---- MODULE Spec2Model ----
(***************************************************************************)
(* Model of dialect/providers/base.py (BaseProvider): the language code    *)
(* normalizer, the language registry, the settings accessors, the URL      *)
(* helper and the callback contract of the provider operations.            *)
(*                                                                         *)
(* Python str values are sequences of one-character strings, so that       *)
(* lower(), upper(), capitalize(), replace(), split() and join() are       *)
(* computed character by character.  Optional values (Python None or a     *)
(* value) are sequences of length 0 or 1.  Python dicts are functions.     *)
(***************************************************************************)
EXTENDS Integers, Sequences, FiniteSets, TLC

VARIABLES
    languages,          \* self.languages
    tts_languages,      \* self.tts_languages
    nonstandard_langs,  \* self._nonstandard_langs
    languages_names,    \* self._languages_names
    history,            \* self.history
    settings,           \* self.settings (the translator schema keys)
    LANG_ALIASES,       \* dialect.define.LANG_ALIASES
    lang_aliases,       \* self.lang_aliases (provider override)
    call,               \* the call in progress or just returned, with its result
    added,              \* the original codes passed to add_lang so far, in order
    chars_limit,        \* self.chars_limit
    overrides           \* whether the provider's class overrides the API methods

vars == <<languages, tts_languages, nonstandard_langs, languages_names,
          history, settings, LANG_ALIASES, lang_aliases, call, added,
          chars_limit, overrides>>

registry == <<languages, tts_languages, nonstandard_langs, languages_names, added>>

aliasTables == <<LANG_ALIASES, lang_aliases>>

provider == <<chars_limit, overrides>>

-----------------------------------------------------------------------------
(* Bounds *)

\* Longest language code enumerated exhaustively for normalize_lang_code.
MaxCodeLen == 6

\* Most add_lang calls made on one provider.
MaxAdds == 2

\* Most codes passed to one denormalize_lang call.
MaxArgs == 2

-----------------------------------------------------------------------------
(* Python str and dict primitives *)

None == <<>>

Some(v) == <<v>>

EmptyDict == [k \in {} |-> <<>>]

LowerLetters ==
    <<"a","b","c","d","e","f","g","h","i","j","k","l","m",
      "n","o","p","q","r","s","t","u","v","w","x","y","z">>

UpperLetters ==
    <<"A","B","C","D","E","F","G","H","I","J","K","L","M",
      "N","O","P","Q","R","S","T","U","V","W","X","Y","Z">>

chr_lower(c) ==
    IF \E i \in DOMAIN UpperLetters : UpperLetters[i] = c
    THEN LowerLetters[CHOOSE i \in DOMAIN UpperLetters : UpperLetters[i] = c]
    ELSE c

chr_upper(c) ==
    IF \E i \in DOMAIN LowerLetters : LowerLetters[i] = c
    THEN UpperLetters[CHOOSE i \in DOMAIN LowerLetters : LowerLetters[i] = c]
    ELSE c

\* str.lower()
str_lower(s) == [i \in 1..Len(s) |-> chr_lower(s[i])]

\* str.upper()
str_upper(s) == [i \in 1..Len(s) |-> chr_upper(s[i])]

\* str.capitalize(): first character upper-cased, the rest lower-cased
str_capitalize(s) ==
    [i \in 1..Len(s) |-> IF i = 1 THEN chr_upper(s[i]) ELSE chr_lower(s[i])]

\* str.replace(old, new) for single characters
str_replace(s, old, new) == [i \in 1..Len(s) |-> IF s[i] = old THEN new ELSE s[i]]

\* str.startswith(prefix)
str_startswith(s, prefix) ==
    /\ Len(prefix) <= Len(s)
    /\ SubSeq(s, 1, Len(prefix)) = prefix

\* str.split(sep) for a single-character separator: '' splits to ['']
RECURSIVE str_split(_, _)
str_split(s, sep) ==
    IF \E i \in 1..Len(s) : s[i] = sep
    THEN LET i == CHOOSE j \in 1..Len(s) :
                      /\ s[j] = sep
                      /\ \A k \in 1..(j - 1) : s[k] # sep
         IN  <<SubSeq(s, 1, i - 1)>> \o str_split(SubSeq(s, i + 1, Len(s)), sep)
    ELSE <<s>>

\* sep.join(parts)
RECURSIVE str_join(_, _)
str_join(parts, sep) ==
    IF Len(parts) = 0 THEN <<>>
    ELSE IF Len(parts) = 1 THEN parts[1]
    ELSE parts[1] \o sep \o str_join(Tail(parts), sep)

\* {**a, **b}: the entries of b win on key collision
dict_merge(a, b) ==
    [k \in (DOMAIN a) \cup (DOMAIN b) |-> IF k \in DOMAIN b THEN b[k] ELSE a[k]]

\* d[key] = value
dict_set(d, key, value) ==
    [k \in (DOMAIN d) \cup {key} |-> IF k = key THEN value ELSE d[k]]

\* dict.get(key, default)
dict_get(d, key, default) == IF key \in DOMAIN d THEN d[key] ELSE default

-----------------------------------------------------------------------------
(* Language codes and alias tables the model draws from *)

\* All strings over the given alphabet of length at most n.
RECURSIVE StringsUpTo(_, _)
StringsUpTo(alphabet, n) ==
    IF n = 0 THEN {<<>>}
    ELSE LET shorter == StringsUpTo(alphabet, n - 1)
         IN  shorter \cup {Append(s, c) : s \in shorter, c \in alphabet}

CodeAlphabet == {"a", "A", "-", "_"}

zh_CN == <<"z","h","_","C","N">>
zh_cn_hyphen == <<"z","h","-","c","n">>
zh_CN_hyphen == <<"z","h","-","C","N">>
ZH_cn == <<"Z","H","_","c","n">>
zh_hans_lower == <<"z","h","-","h","a","n","s">>
zh_Hans == <<"z","h","-","H","a","n","s">>
zh == <<"z","h">>
EN == <<"E","N">>
en == <<"e","n">>
iw == <<"i","w">>
he == <<"h","e">>

NamedCodes == {zh_CN, zh_cn_hyphen, zh_CN_hyphen, ZH_cn, zh_hans_lower, zh_Hans,
               zh, EN, en, iw, he}

AllCodes == StringsUpTo(CodeAlphabet, MaxCodeLen) \cup NamedCodes

\* Alias tables as pairs <<global table, provider table>>.
AliasesNone == <<EmptyDict, EmptyDict>>

\* Folding of legacy codes, canonical to canonical.
AliasesGlobal ==
    <<(iw :> he) @@ (zh_CN_hyphen :> zh_Hans) @@ (<<"a","-","A","A">> :> <<"a">>),
      EmptyDict>>

\* The provider table overrides a key of the global one.
AliasesOverride ==
    <<(iw :> he) @@ (zh_CN_hyphen :> zh_Hans), (zh_CN_hyphen :> zh) @@ (<<"a">> :> <<"a","a">>)>>

\* A target that is itself a key.
AliasesChained ==
    <<(<<"a">> :> <<"a","a">>) @@ (<<"a","a">> :> <<"a","a","a">>), EmptyDict>>

\* A target that is not in normalized form.
AliasesRawTarget == <<EmptyDict, (zh :> zh_CN)>>

\* A key that is not in normalized form (never matched after normalization).
AliasesRawKey == <<(EN :> he) @@ (<<"A">> :> <<"a","a","a">>), EmptyDict>>

AliasConfigs == {AliasesNone, AliasesGlobal, AliasesOverride, AliasesChained,
                 AliasesRawTarget, AliasesRawKey}

-----------------------------------------------------------------------------
(* Language Code Normalizer *)

\* Mutant: the alias lookup is done on the raw input, before the structural
\* normalization.
normalize_lang_code_alias_first(code) ==
    LET aliases == dict_merge(LANG_ALIASES, lang_aliases)
        raw     == IF code \in DOMAIN aliases THEN aliases[code] ELSE code
        lowered == str_lower(str_replace(raw, "_", "-"))
        codes   == str_split(lowered, "-")
    IN  IF Len(codes) = 2
        THEN str_join([codes EXCEPT ![2] =
                          IF Len(@) = 4 THEN str_capitalize(@)
                          ELSE IF Len(@) = 2 THEN str_upper(@)
                          ELSE @], <<"-">>)
        ELSE lowered

\* Mutant: the code is split before its separators are normalized.
normalize_lang_code_split_first(code) ==
    LET lowered == str_lower(code)
        codes   == str_split(lowered, "-")
        joined  == IF Len(codes) = 2
                   THEN str_join([codes EXCEPT ![2] =
                                     IF Len(@) = 4 THEN str_capitalize(@)
                                     ELSE IF Len(@) = 2 THEN str_upper(@)
                                     ELSE @], <<"-">>)
                   ELSE lowered
        fixed   == str_replace(joined, "_", "-")
        aliases == dict_merge(LANG_ALIASES, lang_aliases)
    IN  IF fixed \in DOMAIN aliases THEN aliases[fixed] ELSE fixed

normalize_lang_code(code) ==
    LET lowered == str_lower(str_replace(code, "_", "-"))
        codes   == str_split(lowered, "-")
        joined  == IF Len(codes) = 2
                   THEN str_join([codes EXCEPT ![2] =
                                     IF Len(@) = 4 THEN str_capitalize(@)
                                     ELSE IF Len(@) = 2 THEN str_upper(@)
                                     ELSE @], <<"-">>)
                   ELSE lowered
        aliases == dict_merge(LANG_ALIASES, lang_aliases)
    IN  IF joined \in DOMAIN aliases THEN aliases[joined] ELSE joined

-----------------------------------------------------------------------------
(* Initial state: BaseProvider.__init__ *)

\* The keys of the translator schema; a key that was never set reads as the
\* empty string or the empty list.
SettingsKeys == {"instance-url", "api-key", "src-langs", "dest-langs"}

DefaultSettings == [k \in SettingsKeys |-> <<>>]

\* No call in progress: the single caller is between two calls.
NoCall == [op |-> "none", pc |-> "idle"]

InitRegistry ==
    /\ languages = <<>>
    /\ tts_languages = <<>>
    /\ nonstandard_langs = EmptyDict
    /\ languages_names = EmptyDict
    /\ added = <<>>

\* A provider of the base class itself: no character limit, nothing overridden.
InitBaseClass ==
    /\ chars_limit = -1
    /\ overrides = FALSE

-----------------------------------------------------------------------------
(* Specification of the normalizer alone: any alias tables, any code *)

InitNorm ==
    /\ InitRegistry
    /\ InitBaseClass
    /\ history = <<>>
    /\ settings = DefaultSettings
    /\ \E cfg \in AliasConfigs :
          /\ LANG_ALIASES = cfg[1]
          /\ lang_aliases = cfg[2]
    /\ \E code \in AllCodes :
          call = [op |-> "normalize_lang_code", pc |-> "called", code |-> code]

NormalizeLangCode ==
    /\ call.op = "normalize_lang_code"
    /\ call.pc = "called"
    /\ call' = [op |-> call.op, pc |-> "returned", code |-> call.code,
                ret |-> normalize_lang_code(call.code)]
    /\ UNCHANGED <<registry, history, settings, aliasTables, provider>>

NextNorm == NormalizeLangCode

SpecNorm == InitNorm /\ [][NextNorm]_vars

-----------------------------------------------------------------------------
(* Language Registry *)

\* Mutant: a later original code overwrites the recorded one.
add_lang_nonstandard_overwrite(code, original_code) ==
    IF code # original_code
    THEN dict_set(nonstandard_langs, code, original_code)
    ELSE nonstandard_langs

\* Mutant: the original code is recorded even when normalization left it as
\* it was.
add_lang_nonstandard_always(code, original_code) ==
    IF code \notin DOMAIN nonstandard_langs
    THEN dict_set(nonstandard_langs, code, original_code)
    ELSE nonstandard_langs

\* add_lang, the value of self._nonstandard_langs it leaves
add_lang_nonstandard(code, original_code) ==
    IF code # original_code /\ code \notin DOMAIN nonstandard_langs
    THEN dict_set(nonstandard_langs, code, original_code)
    ELSE nonstandard_langs

\* Mutant: a later display name overwrites the recorded one.
add_lang_names_overwrite(code, name) ==
    IF name # None
    THEN dict_set(languages_names, code, name[1])
    ELSE languages_names

\* add_lang, the value of self._languages_names it leaves (name is Optional)
add_lang_names(code, name) ==
    IF name # None /\ code \notin DOMAIN languages_names
    THEN dict_set(languages_names, code, name[1])
    ELSE languages_names

add_lang(original_code, name, trans, tts) ==
    LET code == normalize_lang_code(original_code)
    IN  /\ languages' = IF trans THEN Append(languages, code) ELSE languages
        /\ tts_languages' = IF tts THEN Append(tts_languages, code) ELSE tts_languages
        /\ nonstandard_langs' = add_lang_nonstandard(code, original_code)
        /\ languages_names' = add_lang_names(code, name)

\* A Python str result and a Python tuple result are told apart by a tag.
PyStr(s) == [kind |-> "str", value |-> s]

PyTuple(t) == [kind |-> "tuple", value |-> t]

\* Mutant: a tuple is returned whatever the number of codes.
denormalize_lang_always_tuple(codes) ==
    PyTuple([i \in 1..Len(codes) |-> dict_get(nonstandard_langs, codes[i], codes[i])])

denormalize_lang(codes) ==
    IF Len(codes) = 1
    THEN PyStr(dict_get(nonstandard_langs, codes[1], codes[1]))
    ELSE PyTuple([i \in 1..Len(codes) |->
                     dict_get(nonstandard_langs, codes[i], codes[i])])

\* Mutant: the provider-supplied name is never consulted.
get_lang_name_no_provider_tier(code, locale_name) ==
    IF locale_name = None THEN code ELSE locale_name[1]

\* get_lang_name; locale_name is the answer of dialect.languages.get_lang_name
\* for code (None or a name)
get_lang_name(code, locale_name) ==
    IF locale_name = None
    THEN dict_get(languages_names, code, code)
    ELSE locale_name[1]

-----------------------------------------------------------------------------
(* Inputs of the registry operations *)

Hebrew == <<"H","e","b","r","e","w">>
Chinese == <<"C","h","i","n","e","s","e">>
EmptyStr == <<>>

\* Codes a provider registers: two spellings of one canonical code, the
\* canonical code itself, and a legacy code folded by the alias table.
AddCodes == {zh_CN, zh_cn_hyphen, zh_CN_hyphen, iw}

\* Display names a provider passes (None when it has none).
AddNames == {None, Some(EmptyStr), Some(Chinese)}

\* Codes looked up by denormalize_lang and get_lang_name.
QueryCodes == {zh_CN_hyphen, he, en}

\* Answers of the locale name service.
LocaleNames == {None, Some(Hebrew)}

\* Alias tables the registry is exercised under.
RegistryAliasConfigs == {AliasesNone, AliasesGlobal}

RECURSIVE TuplesUpTo(_, _)
TuplesUpTo(S, n) ==
    IF n = 0 THEN {<<>>}
    ELSE LET shorter == TuplesUpTo(S, n - 1)
         IN  shorter \cup {Append(t, x) : t \in shorter, x \in S}

-----------------------------------------------------------------------------
(* Specification of the registry: add_lang, denormalize_lang, get_lang_name *)

Init ==
    /\ InitRegistry
    /\ InitBaseClass
    /\ history = <<>>
    /\ settings = DefaultSettings
    /\ \E cfg \in RegistryAliasConfigs :
          /\ LANG_ALIASES = cfg[1]
          /\ lang_aliases = cfg[2]
    /\ call = NoCall

AddLang ==
    \E original_code \in AddCodes, name \in AddNames, trans \in BOOLEAN, tts \in BOOLEAN :
        /\ call = NoCall
        /\ Len(added) < MaxAdds
        /\ add_lang(original_code, name, trans, tts)
        /\ added' = Append(added, original_code)
        /\ UNCHANGED <<history, settings, aliasTables, provider, call>>

DenormalizeLang ==
    \E codes \in TuplesUpTo(QueryCodes, MaxArgs) :
        /\ call = NoCall
        /\ call' = [op |-> "denormalize_lang", pc |-> "returned", codes |-> codes,
                    ret |-> denormalize_lang(codes)]
        /\ UNCHANGED <<registry, history, settings, aliasTables, provider>>

GetLangName ==
    \E code \in QueryCodes, locale_name \in LocaleNames :
        /\ call = NoCall
        /\ call' = [op |-> "get_lang_name", pc |-> "returned", code |-> code,
                    locale_name |-> locale_name,
                    ret |-> get_lang_name(code, locale_name)]
        /\ UNCHANGED <<registry, history, settings, aliasTables, provider>>

\* The caller takes the result; the next call can be made.
Return ==
    /\ call.pc = "returned"
    /\ call' = NoCall
    /\ UNCHANGED <<registry, history, settings, aliasTables, provider>>

Next == AddLang \/ DenormalizeLang \/ GetLangName \/ Return

Spec == Init /\ [][Next]_vars

\* A provider table that maps a target of the global table further.
AliasesChainedProvider ==
    <<(iw :> he) @@ (zh_CN_hyphen :> zh_Hans), (zh_Hans :> zh)>>

\* Alias tables of the registry, with and without canonical targets.
RegistryAnyAliasConfigs == {AliasesNone, AliasesGlobal, AliasesChainedProvider}

InitAnyAliases ==
    /\ InitRegistry
    /\ InitBaseClass
    /\ history = <<>>
    /\ settings = DefaultSettings
    /\ \E cfg \in RegistryAnyAliasConfigs :
          /\ LANG_ALIASES = cfg[1]
          /\ lang_aliases = cfg[2]
    /\ call = NoCall

\* normalize_lang_code called on a provider that has registered languages.
NormalizeRegistered ==
    \E code \in AddCodes :
        /\ call = NoCall
        /\ call' = [op |-> "normalize_lang_code", pc |-> "returned", code |-> code,
                    ret |-> normalize_lang_code(code)]
        /\ UNCHANGED <<registry, history, settings, aliasTables, provider>>

\* Argument lists of the denormalize_lang calls made on it.
RegistryDenormArgs == {<<zh_Hans>>, <<zh_CN_hyphen, he>>}

\* Codes of the get_lang_name calls made on it, with the locale service's answer.
RegistryNameQueries == {<<zh_Hans, None>>, <<he, Some(Hebrew)>>}

DenormalizeRegistered ==
    \E codes \in RegistryDenormArgs :
        /\ call = NoCall
        /\ call' = [op |-> "denormalize_lang", pc |-> "returned", codes |-> codes,
                    ret |-> denormalize_lang(codes)]
        /\ UNCHANGED <<registry, history, settings, aliasTables, provider>>

GetNameRegistered ==
    \E query \in RegistryNameQueries :
        /\ call = NoCall
        /\ call' = [op |-> "get_lang_name", pc |-> "returned", code |-> query[1],
                    locale_name |-> query[2],
                    ret |-> get_lang_name(query[1], query[2])]
        /\ UNCHANGED <<registry, history, settings, aliasTables, provider>>

NextRegistry ==
    AddLang \/ DenormalizeRegistered \/ GetNameRegistered \/ NormalizeRegistered \/ Return

\* The registry with all its operations, under any of the alias tables.
SpecRegistry == InitAnyAliases /\ [][NextRegistry]_vars

-----------------------------------------------------------------------------
(* Provider settings helpers and properties *)

fr == <<"f","r">>
es == <<"e","s">>
de == <<"d","e">>

\* BaseProvider.defaults
defaults ==
    [instance_url |-> <<>>,
     api_key      |-> <<>>,
     src_langs    |-> <<en, fr, es, de>>,
     dest_langs   |-> <<fr, es, de, en>>]

\* a or b, for str and list operands: a unless it is empty
py_or(a, b) == IF a # <<>> THEN a ELSE b

\* Gio.Settings.get_string / get_strv
settings_get(key) == settings[key]

\* Gio.Settings.set_string / set_strv
settings_set(key, value) == [settings EXCEPT ![key] = value]

instance_url == py_or(settings_get("instance-url"), defaults.instance_url)

api_key == py_or(settings_get("api-key"), defaults.api_key)

\* Mutant: the stored list is returned without the fallback to the default.
src_langs_no_fallback == settings_get("src-langs")

src_langs == py_or(settings_get("src-langs"), defaults.src_langs)

dest_langs == py_or(settings_get("dest-langs"), defaults.dest_langs)

set_instance_url(url) == settings_set("instance-url", url)

set_api_key(key) == settings_set("api-key", key)

set_src_langs(langs) == settings_set("src-langs", langs)

set_dest_langs(langs) == settings_set("dest-langs", langs)

reset_instance_url == set_instance_url(<<>>)

reset_api_key == set_api_key(<<>>)

reset_src_langs == set_src_langs(<<>>)

reset_dest_langs == set_dest_langs(<<>>)

\* The property read by a getter call.
getter(key) ==
    CASE key = "instance-url" -> instance_url
      [] key = "api-key"      -> api_key
      [] key = "src-langs"    -> src_langs
      [] key = "dest-langs"   -> dest_langs

\* The settings left by a setter call.
setter(key, value) ==
    CASE key = "instance-url" -> set_instance_url(value)
      [] key = "api-key"      -> set_api_key(value)
      [] key = "src-langs"    -> set_src_langs(value)
      [] key = "dest-langs"   -> set_dest_langs(value)

\* The settings left by a reset call.
resetter(key) ==
    CASE key = "instance-url" -> reset_instance_url
      [] key = "api-key"      -> reset_api_key
      [] key = "src-langs"    -> reset_src_langs
      [] key = "dest-langs"   -> reset_dest_langs

libretranslate_com ==
    <<"l","i","b","r","e","t","r","a","n","s","l","a","t","e",".","c","o","m">>
localhost_5000 == <<"l","o","c","a","l","h","o","s","t",":","5","0","0","0">>
localhost == <<"l","o","c","a","l","h","o","s","t">>
secret == <<"s","e","c","r","e","t">>

\* Values a caller stores under each key (the empty value included).
SettingsValues(key) ==
    CASE key = "instance-url" -> {<<>>, libretranslate_com, localhost_5000}
      [] key = "api-key"      -> {<<>>, secret}
      [] key = "src-langs"    -> {<<>>, <<he>>, <<de, en>>}
      [] key = "dest-langs"   -> {<<>>, <<en>>, <<fr, es, de, en>>}

-----------------------------------------------------------------------------
(* Specification of the settings accessors *)

InitSettings ==
    /\ InitRegistry
    /\ InitBaseClass
    /\ history = <<>>
    /\ settings = DefaultSettings
    /\ LANG_ALIASES = EmptyDict
    /\ lang_aliases = EmptyDict
    /\ call = NoCall

\* A property assignment, e.g. provider.src_langs = [...]
SetSetting ==
    \E key \in SettingsKeys :
        \E value \in SettingsValues(key) :
            /\ settings' = setter(key, value)
            /\ call' = [op |-> "set", pc |-> "returned", key |-> key]
            /\ UNCHANGED <<registry, history, aliasTables, provider>>

\* reset_instance_url, reset_api_key, reset_src_langs, reset_dest_langs; the
\* value that was stored before is remembered.
ResetSetting ==
    \E key \in SettingsKeys :
        /\ settings' = resetter(key)
        /\ call' = [op |-> "reset", pc |-> "returned", key |-> key,
                    old |-> settings_get(key)]
        /\ UNCHANGED <<registry, history, aliasTables, provider>>

\* A property read; the call made just before it is remembered.
GetSetting ==
    \E key \in SettingsKeys :
        /\ call' = [op |-> "get", pc |-> "returned", key |-> key,
                    ret |-> getter(key),
                    after |-> IF call.op = "get" THEN [op |-> "get"] ELSE call]
        /\ UNCHANGED <<registry, history, settings, aliasTables, provider>>

NextSettings == SetSetting \/ ResetSetting \/ GetSetting

SpecSettings == InitSettings /\ [][NextSettings]_vars

-----------------------------------------------------------------------------
(* General provider helpers: format_url *)

\* urllib.parse.quote_plus of one character: letters, digits and _.-~ are
\* kept, a space becomes a plus sign, anything else is percent-encoded
quote_plus_chr(c) ==
    CASE c = " " -> <<"+">>
      [] c = "&" -> <<"%","2","6">>
      [] c = "=" -> <<"%","3","D">>
      [] c = "/" -> <<"%","2","F">>
      [] c = "?" -> <<"%","3","F">>
      [] c = ":" -> <<"%","3","A">>
      [] c = "+" -> <<"%","2","B">>
      [] OTHER   -> <<c>>

RECURSIVE quote_plus(_)
quote_plus(s) ==
    IF s = <<>> THEN <<>> ELSE quote_plus_chr(Head(s)) \o quote_plus(Tail(s))

\* urllib.parse.urlencode of a dict, given as its items in insertion order
urlencode(params) ==
    str_join([i \in 1..Len(params) |->
                 quote_plus(params[i][1]) \o <<"=">> \o quote_plus(params[i][2])],
             <<"&">>)

https_scheme == <<"h","t","t","p","s",":","/","/">>
http_scheme == <<"h","t","t","p",":","/","/">>
localhost_colon == <<"l","o","c","a","l","h","o","s","t",":">>

\* Mutant: any host that begins with localhost is served over HTTP.
format_url_any_localhost(url, path, params, http) ==
    LET path2      == IF ~str_startswith(path, <<"/">>) THEN <<"/">> \o path ELSE path
        protocol   == IF str_startswith(url, localhost) \/ http
                      THEN http_scheme ELSE https_scheme
        params_str == urlencode(params)
    IN  protocol \o url \o path2 \o
            (IF params_str # <<>> THEN <<"?">> \o params_str ELSE params_str)

format_url(url, path, params, http) ==
    LET path2      == IF ~str_startswith(path, <<"/">>) THEN <<"/">> \o path ELSE path
        protocol   == IF str_startswith(url, localhost_colon) \/ http
                      THEN http_scheme ELSE https_scheme
        params_str == urlencode(params)
    IN  protocol \o url \o path2 \o
            (IF params_str # <<>> THEN <<"?">> \o params_str ELSE params_str)

translate_path == <<"t","r","a","n","s","l","a","t","e">>
detect_path == <<"/","d","e","t","e","c","t">>
q == <<"q">>
hi == <<"h","i">>

UrlHosts == {libretranslate_com, localhost_5000, localhost, localhost_colon, <<>>}

UrlPaths == {<<>>, <<"/">>, translate_path, detect_path}

\* Query parameters, as the items of the dict in insertion order.
UrlParams ==
    {<<>>,
     <<<<q, hi>>>>,
     <<<<q, <<"a"," ","b">>>>, <<<<"k","&">>, <<"x","=","/">>>>>>,
     <<<<<<>>, <<>>>>>>,
     <<<<<<"t">>, he>>, <<<<"s">>, <<>>>>, <<q, <<"?",":","+">>>>>>}

InitUrl ==
    /\ InitRegistry
    /\ InitBaseClass
    /\ history = <<>>
    /\ settings = DefaultSettings
    /\ LANG_ALIASES = EmptyDict
    /\ lang_aliases = EmptyDict
    /\ \E url \in UrlHosts, path \in UrlPaths, params \in UrlParams, http \in BOOLEAN :
          call = [op |-> "format_url", pc |-> "called", url |-> url, path |-> path,
                  params |-> params, http |-> http]

FormatUrl ==
    /\ call.op = "format_url"
    /\ call.pc = "called"
    /\ call' = [op |-> call.op, pc |-> "returned", url |-> call.url,
                path |-> call.path, params |-> call.params, http |-> call.http,
                ret |-> format_url(call.url, call.path, call.params, call.http)]
    /\ UNCHANGED <<registry, history, settings, aliasTables, provider>>

NextUrl == FormatUrl

SpecUrl == InitUrl /\ [][NextUrl]_vars

-----------------------------------------------------------------------------
(* Providers API methods *)

\* What a call has done so far: how many times it invoked on_done, the error
\* codes it passed to on_fail (one per invocation), the exception it raised to
\* its caller (None if none), and how many requests it sent over the network.
Effect(done, fail, raised, network) ==
    [done |-> done, fail |-> fail, raised |-> raised, network |-> network]

\* raise NotImplementedError()
RaiseNotImplemented == Effect(0, <<>>, Some("NotImplementedError"), 0)

\* on_done()
CallOnDone == Effect(1, <<>>, None, 0)

\* on_fail(ProviderError(code))
CallOnFail(code) == Effect(0, <<code>>, None, 0)

validate_instance(url) == RaiseNotImplemented

validate_api_key(key) == RaiseNotImplemented

\* Mutant: the initialization reports success and then an error as well.
init_trans_both == Effect(1, <<"UNEXPECTED">>, None, 0)

init_trans == CallOnDone

\* Mutant: the initialization reports an error instead of success.
init_tts_on_fail == CallOnFail("UNEXPECTED")

init_tts == CallOnDone

\* Mutant: the base class reports the missing implementation through on_fail.
translate_on_fail(text, src, dest) == CallOnFail("UNEXPECTED")

translate(text, src, dest) == RaiseNotImplemented

suggest(text, src, dest, suggestion) == RaiseNotImplemented

speech(text, language) == RaiseNotImplemented

\* The API methods of BaseProvider, by name and argument list.
base_method(op, args) ==
    CASE op = "validate_instance" -> validate_instance(args[1])
      [] op = "validate_api_key"  -> validate_api_key(args[1])
      [] op = "init_trans"        -> init_trans
      [] op = "init_tts"          -> init_tts
      [] op = "translate"         -> translate(args[1], args[2], args[3])
      [] op = "suggest"           -> suggest(args[1], args[2], args[3], args[4])
      [] op = "speech"            -> speech(args[1], args[2])

-----------------------------------------------------------------------------
(* A provider that overrides the API methods as 4.4 of the specification    *)
(* requires of every concrete provider (the concrete providers are not part *)
(* of the sources modelled here).                                           *)

\* The check a concrete translate makes before it uses the network: the error
\* code it fails with, or None.
concrete_translate_check(text, src, dest) ==
    IF text = <<>> THEN Some("EMPTY")
    ELSE IF chars_limit # -1 /\ Len(text) > chars_limit
         THEN Some("CHARACTERS_LIMIT_EXCEEDED")
    ELSE IF \/ \A i \in 1..Len(languages) : languages[i] # src
            \/ \A i \in 1..Len(languages) : languages[i] # dest
         THEN Some("INVALID_LANG_CODE")
    ELSE None

\* The check made before the network is used, by method.
concrete_check(op, args) ==
    IF op = "translate" THEN concrete_translate_check(args[1], args[2], args[3])
    ELSE None

\* What the service can answer a request with: "ok" or an error code.
concrete_replies(op) ==
    CASE op = "translate" ->
             {"ok", "NETWORK", "API_KEY_REQUIRED", "API_KEY_INVALID",
              "BATCH_SIZE_EXCEEDED", "SERVICE_LIMIT_REACHED", "TRANSLATION_FAILED",
              "UNEXPECTED"}
      [] op = "speech" -> {"ok", "NETWORK", "TTS_FAILED", "UNEXPECTED"}
      [] OTHER -> {"ok", "NETWORK", "UNEXPECTED"}

\* The call of an overriding method: it fails at once when its check fails,
\* and otherwise sends its request and waits for the reply.
concrete_call(op, args) ==
    LET failed == concrete_check(op, args)
    IN  IF failed # None
        THEN [pc |-> "returned", effect |-> CallOnFail(failed[1])]
        ELSE [pc |-> "waiting", effect |-> Effect(0, <<>>, None, 1)]

\* The reply of the service to a waiting call: one continuation is invoked.
concrete_reply(effect, reply) ==
    IF reply = "ok"
    THEN [effect EXCEPT !.done = @ + 1]
    ELSE [effect EXCEPT !.fail = Append(@, reply)]

-----------------------------------------------------------------------------
(* Specification of the API methods *)

hello == <<"h","e","l","l","o">>

ApiTexts == {<<>>, hi, hello}

ApiLangs == {en, he}

\* The argument lists a method is called with.
ApiArgs(op) ==
    CASE op = "validate_instance" -> {<<url>> : url \in {libretranslate_com, localhost_5000}}
      [] op = "validate_api_key"  -> {<<key>> : key \in {<<>>, secret}}
      [] op = "init_trans"        -> {<<>>}
      [] op = "init_tts"          -> {<<>>}
      [] op = "translate"         ->
             {<<text, src, dest>> : text \in ApiTexts, src \in ApiLangs, dest \in ApiLangs}
      [] op = "suggest"           ->
             {<<text, en, he, hi>> : text \in ApiTexts}
      [] op = "speech"            ->
             {<<text, language>> : text \in ApiTexts, language \in ApiLangs}

ApiMethods == {"validate_instance", "validate_api_key", "init_trans", "init_tts",
               "translate", "suggest", "speech"}

\* Character limits of the providers modelled: none, or shorter than a text.
CharsLimits == {-1, 2}

InitApi ==
    /\ InitRegistry
    /\ history = <<>>
    /\ settings = DefaultSettings
    /\ LANG_ALIASES = EmptyDict
    /\ lang_aliases = EmptyDict
    /\ call = NoCall
    /\ \/ InitBaseClass
       \/ /\ overrides = TRUE
          /\ chars_limit \in CharsLimits

\* The provider registers a language it translates.
AddLangApi ==
    \E original_code \in ApiLangs :
        /\ call = NoCall
        /\ Len(added) < MaxAdds
        /\ add_lang(original_code, None, TRUE, FALSE)
        /\ added' = Append(added, original_code)
        /\ UNCHANGED <<history, settings, aliasTables, provider, call>>

\* A method of the base class is called and runs to its end.
CallBaseMethod ==
    \E op \in ApiMethods :
        \E args \in ApiArgs(op) :
            /\ call = NoCall
            /\ ~overrides
            /\ call' = [op |-> op, pc |-> "returned", args |-> args,
                        effect |-> base_method(op, args)]
            /\ UNCHANGED <<registry, history, settings, aliasTables, provider>>

\* A method of an overriding provider is called.
CallConcreteMethod ==
    \E op \in ApiMethods :
        \E args \in ApiArgs(op) :
            /\ call = NoCall
            /\ overrides
            /\ call' = [op |-> op, args |-> args] @@ concrete_call(op, args)
            /\ UNCHANGED <<registry, history, settings, aliasTables, provider>>

\* The service answers the waiting call.
ServiceReply ==
    \E reply \in concrete_replies(call.op) :
        /\ call.pc = "waiting"
        /\ call' = [call EXCEPT !.pc = "returned",
                                !.effect = concrete_reply(call.effect, reply)]
        /\ UNCHANGED <<registry, history, settings, aliasTables, provider>>

NextApi == AddLangApi \/ CallBaseMethod \/ CallConcreteMethod \/ ServiceReply \/ Return

SpecApi == InitApi /\ [][NextApi]_vars

\* The caller stores a setting between two calls of the API methods.
StoreSetting ==
    \E key \in SettingsKeys :
        \E value \in SettingsValues(key) :
            /\ call = NoCall
            /\ settings' = setter(key, value)
            /\ UNCHANGED <<registry, history, aliasTables, provider, call>>

NextConfigured == NextApi \/ StoreSetting

\* The API methods on a provider whose settings and languages were set up.
SpecConfigured == InitApi /\ [][NextConfigured]_vars

-----------------------------------------------------------------------------
(* Claims about the normalizer (checked under SpecNorm) *)

\* The structural normalization of 4.1, stated position by position: every
\* underscore becomes a hyphen and every letter lower case; when the result
\* holds exactly one hyphen, the part after it is capitalized if it has four
\* characters and upper-cased if it has two.
RefStructural(code) ==
    LET s == [i \in 1..Len(code) |->
                 IF code[i] = "_" THEN "-" ELSE chr_lower(code[i])]
        hyphens == {i \in 1..Len(s) : s[i] = "-"}
    IN  IF Cardinality(hyphens) = 1
        THEN LET h == CHOOSE i \in hyphens : TRUE
                 n == Len(s) - h
             IN  [i \in 1..Len(s) |->
                     IF (n = 4 /\ i = h + 1) \/ (n = 2 /\ i > h)
                     THEN chr_upper(s[i]) ELSE s[i]]
        ELSE s

\* The reference result: one lookup of the structurally normalized code, in
\* the provider table first and in the global table second.
RefNormalize(code) ==
    LET s == RefStructural(code)
    IN  IF s \in DOMAIN lang_aliases THEN lang_aliases[s]
        ELSE IF s \in DOMAIN LANG_ALIASES THEN LANG_ALIASES[s]
        ELSE s

NormReturned == call.op = "normalize_lang_code" /\ call.pc = "returned"

\* Every target of the merged alias table is a canonical code: it is in
\* structurally normalized form and the table does not map it further.
AliasTargetsCanonical ==
    LET merged == dict_merge(LANG_ALIASES, lang_aliases)
    IN  \A k \in DOMAIN merged :
            /\ RefStructural(merged[k]) = merged[k]
            /\ merged[k] \in DOMAIN merged => merged[merged[k]] = merged[k]

\* C2 (as stated): normalize_lang_code(normalize_lang_code(x)) equals
\* normalize_lang_code(x) for every code x and every content of the global
\* and provider alias tables.
C2_IdempotentAnyTables ==
    NormReturned => normalize_lang_code(call.ret) = call.ret

\* C2 (amended): normalize_lang_code(normalize_lang_code(x)) equals
\* normalize_lang_code(x) for every code x, whenever every target of the
\* merged alias table is a canonical code (structurally normalized and not
\* mapped further by the table).
C2_IdempotentCanonicalTargets ==
    (NormReturned /\ AliasTargetsCanonical)
        => normalize_lang_code(call.ret) = call.ret

\* C2 witness: a code that is changed both structurally and by an alias,
\* normalized under a table with canonical targets.
C2_Witness ==
    /\ NormReturned
    /\ AliasTargetsCanonical
    /\ call.code = <<"A","_","a","a">>
    /\ call.ret = <<"a">>

\* C7: normalize_lang_code(code) equals the reference: separators and case
\* normalized structurally, then a single alias lookup of the structurally
\* normalized code in the global table overlaid by the provider table.
C7_NormalizeMatchesReference ==
    NormReturned => call.ret = RefNormalize(call.code)

\* C7 witness: a raw code that matches no key itself, whose structurally
\* normalized form is a key of both tables, and the provider entry is used.
C7_Witness ==
    /\ NormReturned
    /\ call.code = ZH_cn
    /\ call.code \notin DOMAIN LANG_ALIASES \cup DOMAIN lang_aliases
    /\ zh_CN_hyphen \in DOMAIN LANG_ALIASES \cap DOMAIN lang_aliases
    /\ LANG_ALIASES[zh_CN_hyphen] # lang_aliases[zh_CN_hyphen]
    /\ call.ret = lang_aliases[zh_CN_hyphen]

-----------------------------------------------------------------------------
(* Claims about the registry (checked under Spec) *)

DenormReturned == call.op = "denormalize_lang" /\ call.pc = "returned"

NameReturned == call.op = "get_lang_name" /\ call.pc = "returned"

\* The original codes added so far that normalization changed into c.
DivergentOriginals(c) ==
    {i \in 1..Len(added) : normalize_lang_code(added[i]) = c /\ added[i] # c}

\* The first of them in call order.
FirstDivergentOriginal(c) ==
    added[CHOOSE i \in DivergentOriginals(c) : \A j \in DivergentOriginals(c) : i <= j]

\* C1 (as stated): after any sequence of add_lang calls, for every original
\* code o passed to add_lang with normalize_lang_code(o) # o,
\* denormalize_lang(normalize_lang_code(o)) returns o, also when several
\* original codes with the same canonical code were added.
C1_RoundTripEveryOriginal ==
    (DenormReturned /\ Len(call.codes) = 1)
        => \A i \in DivergentOriginals(call.codes[1]) : call.ret = PyStr(added[i])

\* C1 (amended): after any sequence of add_lang calls, for every original
\* code o passed to add_lang with normalize_lang_code(o) # o,
\* denormalize_lang(normalize_lang_code(o)) returns the first original code
\* added that normalization changed into normalize_lang_code(o); it returns o
\* when o is the only or the first such code.
C1_RoundTripFirstOriginal ==
    (DenormReturned /\ Len(call.codes) = 1 /\ DivergentOriginals(call.codes[1]) # {})
        => call.ret = PyStr(FirstDivergentOriginal(call.codes[1]))

\* C1 witness: two different original codes with one canonical code were
\* added and the canonical code was denormalized.
C1_Witness ==
    /\ DenormReturned
    /\ call.codes = <<zh_CN_hyphen>>
    /\ added = <<zh_cn_hyphen, zh_CN>>
    /\ call.ret = PyStr(zh_cn_hyphen)

\* C4: get_lang_name never returns an empty string for a non-empty code, in
\* every registry state and for every answer of the locale name service.
C4_NameNeverEmpty ==
    (NameReturned /\ call.code # EmptyStr) => call.ret # EmptyStr

\* C8: get_lang_name returns the locale service's name when it has one,
\* otherwise the provider-supplied name recorded for the code, otherwise the
\* code itself.
C8_ThreeTierFallback ==
    NameReturned =>
        call.ret = CASE call.locale_name # None -> call.locale_name[1]
                     [] call.locale_name = None /\ call.code \in DOMAIN languages_names
                            -> languages_names[call.code]
                     [] OTHER -> call.code

\* C8 witness: the locale service has no name and the provider supplied one,
\* which differs from the code.
C8_Witness ==
    /\ NameReturned
    /\ call.locale_name = None
    /\ call.code = zh_CN_hyphen
    /\ call.code \in DOMAIN languages_names
    /\ call.ret = Chinese

\* C9: denormalize_lang called with exactly one code returns a single code
\* (the recorded original, or the code itself when none is recorded); called
\* with any other number of codes it returns a sequence as long as its input,
\* whose i-th element is the denormalization of the i-th code.
C9_DenormalizeArity ==
    DenormReturned =>
        IF Len(call.codes) = 1
        THEN /\ call.ret.kind = "str"
             /\ call.ret.value = IF call.codes[1] \in DOMAIN nonstandard_langs
                                 THEN nonstandard_langs[call.codes[1]]
                                 ELSE call.codes[1]
        ELSE /\ call.ret.kind = "tuple"
             /\ Len(call.ret.value) = Len(call.codes)
             /\ \A i \in 1..Len(call.codes) :
                    call.ret.value[i] = IF call.codes[i] \in DOMAIN nonstandard_langs
                                        THEN nonstandard_langs[call.codes[i]]
                                        ELSE call.codes[i]

\* C9 witness: two codes, the second with a recorded original and the first
\* without, come back as a pair in input order.
C9_Witness ==
    /\ DenormReturned
    /\ call.codes = <<en, zh_CN_hyphen>>
    /\ call.ret = PyTuple(<<en, zh_CN>>)

-----------------------------------------------------------------------------
(* Claims about the settings accessors (checked under SpecSettings) *)

\* The default the provider declares for a settings key.
DeclaredDefault(key) ==
    CASE key = "instance-url" -> defaults.instance_url
      [] key = "api-key"      -> defaults.api_key
      [] key = "src-langs"    -> defaults.src_langs
      [] key = "dest-langs"   -> defaults.dest_langs

GetReturned == call.op = "get" /\ call.pc = "returned"

\* C6: for each of the keys instance-url, api-key, src-langs and dest-langs
\* the getter returns the provider's declared default whenever the stored
\* value is empty or unset, and right after the paired reset operation it
\* returns that default whatever was stored before; the src-langs default is
\* exactly ['en', 'fr', 'es', 'de'].
C6_DefaultOnEmpty ==
    GetReturned =>
        /\ settings[call.key] = <<>> => call.ret = DeclaredDefault(call.key)
        /\ (call.after.op = "reset" /\ call.after.key = call.key)
               => call.ret = DeclaredDefault(call.key)
        /\ (call.key = "src-langs" /\ settings[call.key] = <<>>)
               => call.ret = <<en, fr, es, de>>

\* C6 witness: src-langs held a list, was reset, and is read right after,
\* while another key still holds a value.
C6_Witness ==
    /\ GetReturned
    /\ call.key = "src-langs"
    /\ call.after.op = "reset"
    /\ call.after.key = "src-langs"
    /\ call.after.old = <<de, en>>
    /\ settings["dest-langs"] = <<en>>
    /\ call.ret = <<en, fr, es, de>>

-----------------------------------------------------------------------------
(* Claims about format_url (checked under SpecUrl) *)

RefPair(item) == quote_plus(item[1]) \o <<"=">> \o quote_plus(item[2])

\* The encoded parameters joined with '&', built from the last one backwards.
RECURSIVE RefJoined(_)
RefJoined(params) ==
    IF Len(params) = 1 THEN RefPair(params[1])
    ELSE RefJoined(SubSeq(params, 1, Len(params) - 1))
             \o <<"&">> \o RefPair(params[Len(params)])

UrlReturned == call.op = "format_url" /\ call.pc = "returned"

-----------------------------------------------------------------------------
(* Claims about the API methods (checked under SpecApi) *)

ApiReturned == call.op \in ApiMethods /\ call.pc = "returned"

\* One continuation was invoked, once, and nothing was raised.
ExactlyOneContinuation(effect) ==
    /\ effect.done + Len(effect.fail) = 1
    /\ effect.raised = None

\* The methods BaseProvider implements itself.
DefaultMethods == {"init_trans", "init_tts"}

\* C3 (as stated): every call of validate_instance, validate_api_key,
\* init_trans, init_tts, translate, suggest or speech invokes exactly one of
\* on_done / on_fail, exactly once, and never raises to its caller.
C3_ExactlyOnceEveryMethod ==
    ApiReturned => ExactlyOneContinuation(call.effect)

\* C3 (amended): every call of init_trans or init_tts, and every call of a
\* method that a provider overrides as the contract requires, invokes exactly
\* one of on_done / on_fail exactly once and never raises; a call of
\* validate_instance, validate_api_key, translate, suggest or speech that is
\* not overridden raises NotImplementedError to its caller and invokes
\* neither continuation.
C3_ExactlyOnceOrNotImplemented ==
    /\ (ApiReturned /\ (overrides \/ call.op \in DefaultMethods))
           => ExactlyOneContinuation(call.effect)
    /\ (ApiReturned /\ ~overrides /\ call.op \notin DefaultMethods)
           => /\ call.effect.done = 0
              /\ call.effect.fail = <<>>
              /\ call.effect.raised = Some("NotImplementedError")

\* C3 witness: init_trans of the base class has run on a provider that has
\* registered languages, and invoked on_done once.
C3_Witness ==
    /\ ApiReturned
    /\ ~overrides
    /\ call.op = "init_trans"
    /\ languages # <<>>
    /\ call.effect.done = 1
    /\ call.effect.fail = <<>>

EmptyTextTranslated ==
    /\ ApiReturned
    /\ call.op = "translate"
    /\ call.args[1] = <<>>

\* C5 (as stated): translate called with empty text always passes a
\* ProviderError with code EMPTY to on_fail, before any network interaction.
C5_EmptyTextFailsEmpty ==
    EmptyTextTranslated
        => /\ call.effect.fail = <<"EMPTY">>
           /\ call.effect.done = 0
           /\ call.effect.network = 0

\* C5 (amended): translate called with empty text on a provider that
\* overrides it as the contract requires passes a ProviderError with code
\* EMPTY to on_fail before any network interaction; BaseProvider.translate
\* itself raises NotImplementedError for empty text, invoking neither
\* continuation, also before any network interaction.
C5_EmptyTextFailsEmptyWhenOverridden ==
    EmptyTextTranslated
        => /\ call.effect.network = 0
           /\ call.effect.done = 0
           /\ IF overrides
              THEN call.effect.fail = <<"EMPTY">> /\ call.effect.raised = None
              ELSE call.effect.fail = <<>>
                       /\ call.effect.raised = Some("NotImplementedError")

\* C5 witness: translate of the base class was called with empty text, for
\* languages the provider has registered.
C5_Witness ==
    /\ EmptyTextTranslated
    /\ ~overrides
    /\ call.args = <<EmptyStr, en, he>>
    /\ languages = <<en, he>>
    /\ call.effect.raised = Some("NotImplementedError")

-----------------------------------------------------------------------------
(* Claims about the default initialization (checked under SpecConfigured) *)

\* A step in which init_trans or init_tts of the base class is called and
\* runs to its end.
DefaultInitStep ==
    /\ ~overrides
    /\ call.pc = "idle"
    /\ call'.pc = "returned"
    /\ call'.op \in DefaultMethods

\* C11: the init_trans and init_tts of BaseProvider succeed at once: each
\* call invokes on_done exactly once, never invokes on_fail, raises nothing,
\* and leaves languages, tts_languages, nonstandard_langs, languages_names,
\* the history and the settings as they were.
C11_DefaultInitSucceeds ==
    [][DefaultInitStep =>
           /\ call'.effect.done = 1
           /\ call'.effect.fail = <<>>
           /\ call'.effect.raised = None
           /\ call'.effect.network = 0
           /\ UNCHANGED <<languages, tts_languages, nonstandard_langs,
                          languages_names, history, settings>>]_vars

\* C11 witness: init_tts of the base class has run on a provider that has
\* registered languages and stored settings.
C11_Witness ==
    /\ ~overrides
    /\ call.op = "init_tts"
    /\ call.pc = "returned"
    /\ call.effect.done = 1
    /\ languages = <<he, en>>
    /\ nonstandard_langs = EmptyDict
    /\ settings["api-key"] = secret
    /\ settings["src-langs"] = <<de, en>>

-----------------------------------------------------------------------------
(* Claims about the registry invariants (checked under SpecRegistry) *)

\* Every code of the sequence is a fixed point of normalize_lang_code.
AllNormalized(codes) ==
    \A i \in 1..Len(codes) : normalize_lang_code(codes[i]) = codes[i]

\* Every entry c -> o of nonstandard_langs was changed by normalization:
\* o differs from c and normalizes to it.
OnlyDivergentRecorded ==
    \A c \in DOMAIN nonstandard_langs :
        /\ nonstandard_langs[c] # c
        /\ normalize_lang_code(nonstandard_langs[c]) = c

\* C12 (as stated): in every state reached by add_lang calls, every code c
\* in languages and in tts_languages satisfies normalize_lang_code(c) = c,
\* and nonstandard_langs has an entry c -> o only when o # c and
\* normalize_lang_code(o) = c.
C12_RegistryInvariant ==
    /\ AllNormalized(languages)
    /\ AllNormalized(tts_languages)
    /\ OnlyDivergentRecorded

\* C12 (amended): in every state reached by add_lang calls,
\* nonstandard_langs has an entry c -> o only when o # c and
\* normalize_lang_code(o) = c; and every code c in languages and in
\* tts_languages satisfies normalize_lang_code(c) = c whenever every target
\* of the merged alias table is a canonical code (structurally normalized
\* and not mapped further by the table).
C12_RegistryInvariantCanonicalTargets ==
    /\ OnlyDivergentRecorded
    /\ AliasTargetsCanonical
           => AllNormalized(languages) /\ AllNormalized(tts_languages)

\* C12 witness: under a non-empty table with canonical targets, a legacy
\* code and a code the table folds were added, one for translation and one
\* for speech, and both originals are recorded.
C12_Witness ==
    /\ AliasTargetsCanonical
    /\ added = <<iw, zh_CN_hyphen>>
    /\ languages = <<he>>
    /\ tts_languages = <<zh_Hans>>
    /\ nonstandard_langs = (he :> iw) @@ (zh_Hans :> zh_CN_hyphen)

\* Every entry of the two mappings is still there, unchanged, after the step.
EntriesKept ==
    /\ \A c \in DOMAIN nonstandard_langs :
           /\ c \in DOMAIN nonstandard_langs'
           /\ nonstandard_langs'[c] = nonstandard_langs[c]
    /\ \A c \in DOMAIN languages_names :
           /\ c \in DOMAIN languages_names'
           /\ languages_names'[c] = languages_names[c]

\* An entry appears only in the step of an add_lang call whose original code
\* normalizes to the entry's key; in nonstandard_langs it holds that code.
EntriesRecordedByAddLang ==
    LET isAdd == Len(added') = Len(added) + 1
        last  == added'[Len(added')]
    IN  /\ \A c \in (DOMAIN nonstandard_langs') \ (DOMAIN nonstandard_langs) :
               /\ isAdd
               /\ normalize_lang_code(last) = c
               /\ nonstandard_langs'[c] = last
        /\ \A c \in (DOMAIN languages_names') \ (DOMAIN languages_names) :
               /\ isAdd
               /\ normalize_lang_code(last) = c

\* C13: once nonstandard_langs or languages_names holds an entry for a
\* canonical code, no later add_lang, denormalize_lang, get_lang_name or
\* normalize_lang_code call changes or removes it: the stored value stays
\* the one recorded by the first add_lang call that recorded it.
C13_FirstWriteWins ==
    /\ [][EntriesKept /\ EntriesRecordedByAddLang]_vars
    /\ [](\A c \in DOMAIN nonstandard_langs :
              nonstandard_langs[c] = FirstDivergentOriginal(c))

\* C13 witness: two different original codes with one canonical code were
\* added; the first is the recorded original, and a display name is recorded.
C13_Witness ==
    LET c == normalize_lang_code(zh_CN)
    IN  /\ added = <<zh_CN, zh_cn_hyphen>>
        /\ c \in DOMAIN nonstandard_langs
        /\ nonstandard_langs[c] = zh_CN
        /\ c \in DOMAIN languages_names
        /\ languages = <<c, c>>

====
